---- MODULE Spec2Model ----
(***************************************************************************)
(* A model of rss_to_html.py: the feed normaliser (parse_rss_feed), the    *)
(* secondary-source extractor, the section renderers and the page run.     *)
(*                                                                         *)
(* Text is modelled as Python models it: a str is a sequence of            *)
(* one-character strings, and str.replace, str.split, str.rsplit and       *)
(* str.endswith are computed on the characters, left to right (or right to *)
(* left) and without overlap, exactly as CPython does.                     *)
(***************************************************************************)
EXTENDS Integers, Sequences, FiniteSets, TLC

(***************************************************************************)
(* Bounds of the model.                                                    *)
(***************************************************************************)
\* Number of pieces a candidate entry title is assembled from.
MaxTitleParts ==
    3

\* Number of entries of a feed.
MaxEntries ==
    2

\* Number of parts (list items, fragments) a candidate description is
\* assembled from.
MaxDescParts ==
    3

\* Number of pieces a candidate text for the sanitizer is assembled from.
MaxTextParts ==
    3

\* Number of items of the list passed to a section function, and the largest
\* limit (max_news_items) passed with it.
MaxNewsItems ==
    2

(***************************************************************************)
(* Python's str operations, on sequences of characters.                    *)
(***************************************************************************)
\* s[i:].startswith(pat), with i counted from 1.
MatchAt(s, pat, i) ==
    /\ i >= 1
    /\ i + Len(pat) - 1 <= Len(s)
    /\ \A k \in 1..Len(pat) : s[i + k - 1] = pat[k]

\* The positions at which pat occurs in s (occurrences may overlap).
Occurrences(s, pat) ==
    {i \in 1..(Len(s) - Len(pat) + 1) : MatchAt(s, pat, i)}

SetMin(S) ==
    CHOOSE x \in S : \A y \in S : x <= y

SetMax(S) ==
    CHOOSE x \in S : \A y \in S : x >= y

\* str.find, 1-based, 0 when pat does not occur: the leftmost occurrence.
Find(s, pat) ==
    LET occ == Occurrences(s, pat)
    IN  IF occ = {} THEN 0 ELSE SetMin(occ)

\* str.rfind, 1-based, 0 when pat does not occur: the rightmost occurrence.
RFind(s, pat) ==
    LET occ == Occurrences(s, pat)
    IN  IF occ = {} THEN 0 ELSE SetMax(occ)

\* pat in s
Contains(s, pat) ==
    Occurrences(s, pat) # {}

\* s.endswith(pat)
EndsWith(s, pat) ==
    /\ Len(pat) <= Len(s)
    /\ MatchAt(s, pat, Len(s) - Len(pat) + 1)

\* s[from:], with from counted from 1.
Drop(s, from) ==
    SubSeq(s, from, Len(s))

\* s.replace(old, new): every occurrence found scanning left to right, the
\* scan resuming after each replaced occurrence (the result is not rescanned).
RECURSIVE Replace(_, _, _)
Replace(s, old, new) ==
    LET j == Find(s, old)
    IN  IF j = 0
        THEN s
        ELSE SubSeq(s, 1, j - 1) \o new \o Replace(Drop(s, j + Len(old)), old, new)

\* s.split(sep): the pieces between the occurrences found scanning left to
\* right without overlap; always at least one piece.
RECURSIVE Split(_, _)
Split(s, sep) ==
    LET j == Find(s, sep)
    IN  IF j = 0
        THEN <<s>>
        ELSE <<SubSeq(s, 1, j - 1)>> \o Split(Drop(s, j + Len(sep)), sep)

\* A mutation of RSplit1: split(sep, 1), which cuts at the first occurrence.
SplitFirst1(s, sep) ==
    LET j == Find(s, sep)
    IN  IF j = 0
        THEN <<s>>
        ELSE <<SubSeq(s, 1, j - 1), Drop(s, j + Len(sep))>>

\* s.rsplit(sep, 1): at most one cut, at the rightmost occurrence.
RSplit1(s, sep) ==
    LET j == RFind(s, sep)
    IN  IF j = 0
        THEN <<s>>
        ELSE <<SubSeq(s, 1, j - 1), Drop(s, j + Len(sep))>>

\* "".join(parts)
RECURSIVE Concat(_)
Concat(parts) ==
    IF parts = <<>> THEN <<>> ELSE Head(parts) \o Concat(Tail(parts))

\* All sequences over S of length at most n.
SeqsUpTo(S, n) ==
    UNION {[1..k -> S] : k \in 0..n}

(***************************************************************************)
(* String literals of the source.                                          *)
(***************************************************************************)
\* "<strong>" (lines 40, 65)
StrongOpen ==
    <<"<","s","t","r","o","n","g",">">>
\* "</strong>" (lines 40, 65)
StrongClose ==
    <<"<","/","s","t","r","o","n","g",">">>
\* " - " (line 42)
TitleSeparator ==
    <<" ","-"," ">>
\* the " [" of the f-string of line 44
TagOpen ==
    <<" ","[">>
\* the "]" of the f-string of line 44
TagClose ==
    <<"]">>
\* "No title" (line 39)
NoTitle ==
    <<"N","o"," ","t","i","t","l","e">>
\* '<li><a href="' (line 63)
LiAHref ==
    <<"<","l","i",">","<","a"," ","h","r","e","f","=","\"">>

\* '<ol>' (line 64)
OlOpen ==
    <<"<","o","l",">">>

\* '</ol>' (line 64)
OlClose ==
    <<"<","/","o","l",">">>

\* "</font></li>" (line 66)
sources_split_pattern ==
    <<"<","/","f","o","n","t",">","<","/","l","i",">">>

\* '" target="_blank">' (line 80)
url_split_pattern ==
    <<"\""," ","t","a","r","g","e","t","=","\"","_","b","l","a","n","k","\"",">">>

\* '</a>&nbsp;&nbsp;<font color="#6f6f6f">' (line 86)
title_publisher_split_pattern ==
    <<"<","/","a",">","&","n","b","s","p",";","&","n","b","s","p",";","<","f","o","n","t"," ",
      "c","o","l","o","r","=","\"","#","6","f","6","f","6","f","\"",">">>

\* the texts of the f-string of line 94, between its three fields
AnchorHref ==
    <<"<","a"," ","h","r","e","f","=","\"">>

AnchorTitle ==
    <<"\""," ","t","i","t","l","e","=","\"">>

AnchorTarget ==
    <<"\""," ","t","a","r","g","e","t","=","\"","_","b","l","a","n","k","\"",">","[">>

AnchorClose ==
    <<"]","<","/","a",">">>

\* The texts of the f-string of lines 172-174 (and 199-201), between its fields.
H2Open ==
    <<" "," "," "," "," "," "," "," ","<","h","2"," ","i","d","=","\"">>

H2Href ==
    <<"\"",">","<","a"," ","h","r","e","f","=","\"">>

H2HrefClose ==
    <<"\"",">">>

H2Close ==
    <<"<","/","a",">","<","/","h","2",">","\n"," "," "," "," "," "," "," "," ","<","p"," ","c",
      "l","a","s","s","=","\"","l","a","s","t","-","u","p","d","a","t","e","d","\"",">">>

ListOpen ==
    <<"<","/","p",">","\n"," "," "," "," "," "," "," "," ","<","u","l"," ","c","l","a","s","s",
      "=","\"","n","e","w","s","-","l","i","s","t","\"",">","\n">>

\* The id of the Reuters section, written out in line 199.
ReutersId ==
    <<"r","e","u","t","e","r","s">>

\* The texts of the f-strings of lines 180, 182 and 206, between their fields.
LiOpen ==
    <<" "," "," "," "," "," "," "," "," "," "," "," ","<","l","i",">","<","a"," ","h","r","e",
      "f","=","\"">>

LiTitle ==
    <<"\""," ","t","i","t","l","e","=","\"">>

LiStrong ==
    <<"\""," ","t","a","r","g","e","t","=","\"","_","b","l","a","n","k","\"",">","<","s","t",
      "r","o","n","g",">">>

LiStrongClose ==
    <<"<","/","s","t","r","o","n","g",">","<","/","a",">">>

LiClose ==
    <<"<","/","l","i",">","\n">>

\* Lines 183 and 207.
ListClose ==
    <<" "," "," "," "," "," "," "," ","<","/","u","l",">","\n">>

\* " [Reuters]" (line 204)
ReutersTag ==
    <<" ","[","R","e","u","t","e","r","s","]">>

\* The section arguments generate_index_html passes (lines 281-282, 289-290).
GoogleNewsTitle ==
    <<"G","o","o","g","l","e"," ","N","e","w","s">>

GoogleNewsUrl ==
    <<"h","t","t","p","s",":","/","/","n","e","w","s",".","g","o","o","g","l","e",".","c","o",
      "m","/","h","o","m","e","?","h","l","=","e","n","-","U","S","&","g","l","=","U","S","&",
      "c","e","i","d","=","U","S",":","e","n">>

ReutersTitle ==
    <<"R","e","u","t","e","r","s">>

ReutersUrl ==
    <<"h","t","t","p","s",":","/","/","w","w","w",".","r","e","u","t","e","r","s",".","c","o",
      "m">>

\* str.lower() on ASCII letters.
UpperCase ==
    <<"A","B","C","D","E","F","G","H","I","J","K","L","M","N","O","P","Q","R","S","T","U","V",
      "W","X","Y","Z">>

LowerCase ==
    <<"a","b","c","d","e","f","g","h","i","j","k","l","m","n","o","p","q","r","s","t","u","v",
      "w","x","y","z">>

\* Line 205: the number of characters item['title'][:-11] cuts off.
ReutersTitleCut ==
    11

\* The texts of the sanitizer (spec 4.3).
AmpEntity ==
    <<"&","a","m","p",";">>

GovSuffix ==
    <<" ","(",".","g","o","v",")">>

\* The example of spec 8, without its " (.gov)", and its sanitized form.
ExampleText ==
    <<"H","e"," ","s","a","i","d"," ","\"","h","i","\""," ","&"," ","l","e","f","t">>

ExampleSanitized ==
    <<"H","e"," ","s","a","i","d"," ","'","h","i","'"," ","&","a","m","p",";"," ","l","e","f",
      "t">>

\* "N/a", the stamp returned with a failed fetch (line 31)
NotAvailable ==
    <<"N","/","a">>

\* Python's None. It differs from every str: the elements of a str are single
\* characters.
None ==
    <<"None">>

(***************************************************************************)
(* State.                                                                  *)
(***************************************************************************)
VARIABLES
    entry_title,            \* parse_rss_feed, loop body: the entry's title
    entry_title_cleaned,    \* parse_rss_feed, loop body: the display title
    title_pc,               \* "start" before lines 40-46 ran, "done" after
    response,               \* what feedparser.parse(url) does: the feed, or an exception
    items,                  \* parse_rss_feed: items
    entry_idx,              \* parse_rss_feed: the position of the loop of line 38
    parse_pc,               \* parse_rss_feed: "fetch", "loop", "returned" or "raised"
    parse_ret,              \* parse_rss_feed: the returned (items, last updated)
    diagnostics,            \* parse_rss_feed: the diagnostics printed (lines 29-30, 35)
    description,            \* extract_secondary_sources_from_description: its argument
    item_secondary_sources_anchors,     \* ... and the list it returns
    extract_pc,             \* "start" before the call, "done" once it returned
    section,                \* which section function is called: "google" or "reuters"
    news_items,             \* the item list passed to it (the Reuters one rewrites it)
    news_items_passed,      \* the item list as it was before the first call
    last_updated,           \* the stamp passed to it
    max_news_items,         \* the limit passed to it
    html,                   \* the HTML the last call returned
    html_first,             \* the HTML the first call returned
    render_calls,           \* the number of calls made
    run_pc,                 \* generate_news_pages: "prepare", "fetch", "write", "done", "raised"
    page_idx,               \* the page being generated (1..6)
    page_stamps,            \* what the parse_rss_feed calls of this page returned so far
    written,                \* the files written so far, in order
    text,                   \* sanitize: its argument
    sanitized,              \* sanitize: its result
    sanitize_pc             \* "start" before the call, "done" once it returned

titleVars == <<entry_title, entry_title_cleaned, title_pc>>

parseVars == <<response, items, entry_idx, parse_pc, parse_ret, diagnostics>>

extractVars == <<description, item_secondary_sources_anchors, extract_pc>>

renderVars ==
    <<section, news_items, news_items_passed, last_updated, max_news_items, html, html_first,
      render_calls>>

runVars == <<run_pc, page_idx, page_stamps, written>>

sanitizeVars == <<text, sanitized, sanitize_pc>>

vars == <<titleVars, parseVars, extractVars, renderVars, runVars, sanitizeVars>>

\* What each part of the program leaves alone.
otherThanTitle == <<parseVars, extractVars, renderVars, runVars, sanitizeVars>>

otherThanParse == <<titleVars, extractVars, renderVars, runVars, sanitizeVars>>

otherThanExtract == <<titleVars, parseVars, renderVars, runVars, sanitizeVars>>

otherThanRender == <<titleVars, parseVars, extractVars, runVars, sanitizeVars>>

otherThanSanitize == <<titleVars, parseVars, extractVars, renderVars, runVars>>

otherThanRun == <<titleVars, parseVars, extractVars, renderVars, sanitizeVars>>

(***************************************************************************)
(* parse_rss_feed, lines 39-46: the display title of one entry.            *)
(***************************************************************************)
\* Line 40: the bold markers are removed, first every "<strong>", then every
\* "</strong>".
StripStrong(s) ==
    Replace(Replace(s, StrongOpen, <<>>), StrongClose, <<>>)

\* Line 42.
entry_title_rsplit(title) ==
    RSplit1(title, TitleSeparator)

\* Lines 40-46.
CleanTitle(title) ==
    LET stripped == StripStrong(title)
        parts == entry_title_rsplit(stripped)
    IN  IF Len(parts) = 2
        THEN parts[1] \o TagOpen \o parts[2] \o TagClose
        ELSE stripped

\* The pieces candidate titles are assembled from: text, a headline that holds
\* a separator of its own ("A - B"), the separator, a separator missing its
\* trailing space (so that separators can overlap, as in "A - - B") and the
\* bold markers.
TitlePieces ==
    {<<"A">>, <<"B">>, <<"A">> \o TitleSeparator \o <<"B">>, TitleSeparator, <<" ", "-">>,
     StrongOpen, StrongClose}

TitleInputs ==
    {Concat(p) : p \in SeqsUpTo(TitlePieces, MaxTitleParts)}

SanitizeIdle ==
    /\ text = <<>>
    /\ sanitized = <<>>
    /\ sanitize_pc = "idle"

RunIdle ==
    /\ run_pc = "idle"
    /\ page_idx = 0
    /\ page_stamps = <<>>
    /\ written = <<>>

RenderIdle ==
    /\ section = "none"
    /\ news_items = <<>>
    /\ news_items_passed = <<>>
    /\ last_updated = None
    /\ max_news_items = 0
    /\ html = <<>>
    /\ html_first = <<>>
    /\ render_calls = 0

ExtractIdle ==
    /\ description = <<>>
    /\ item_secondary_sources_anchors = <<>>
    /\ extract_pc = "idle"

ParseIdle ==
    /\ response = [exc |-> "none", entries |-> <<>>, bozo |-> FALSE, feed |-> <<>>]
    /\ items = <<>>
    /\ entry_idx = 0
    /\ parse_pc = "idle"
    /\ parse_ret = [items |-> <<>>, last_updated |-> None]
    /\ diagnostics = <<>>

TitleIdle ==
    /\ entry_title = <<>>
    /\ entry_title_cleaned = <<>>
    /\ title_pc = "idle"

TitleInit ==
    /\ entry_title \in TitleInputs
    /\ entry_title_cleaned = <<>>
    /\ title_pc = "start"
    /\ ParseIdle
    /\ ExtractIdle
    /\ RenderIdle
    /\ RunIdle
    /\ SanitizeIdle

\* One pass of the loop body of lines 40-46 over the entry's title.
CleanEntryTitle ==
    /\ title_pc = "start"
    /\ entry_title_cleaned' = CleanTitle(entry_title)
    /\ title_pc' = "done"
    /\ UNCHANGED <<entry_title, otherThanTitle>>

TitleNext ==
    CleanEntryTitle

SpecTitle ==
    TitleInit /\ [][TitleNext]_vars

(***************************************************************************)
(* parse_rss_feed, lines 13-52.                                            *)
(***************************************************************************)
\* A mutation of Get: a missing key gives None, whatever the default is.
GetOrNone(d, key, default) ==
    IF key \in DOMAIN d THEN d[key] ELSE None

\* dict.get(key, default): an entry (and feed.feed) is a dictionary, modelled as
\* a function whose domain is the set of keys it holds.
Get(d, key, default) ==
    IF key \in DOMAIN d THEN d[key] ELSE default

\* The exceptions feedparser.parse may raise while it talks to the server:
\* the http.client and socket errors of a connection that is closed, reset or
\* cut short.
FetchExceptions ==
    {"RemoteDisconnected", "ConnectionResetError", "IncompleteRead"}

\* Line 28: the except clause names http.client.RemoteDisconnected alone.
\* ConnectionResetError is a base class of it and IncompleteRead is unrelated,
\* so neither is an instance of it.
CaughtByExcept(exc) ==
    exc = "RemoteDisconnected"

\* The entries a feed is made of: each of the three keys may be missing.
EntryTitles ==
    {<<"A">>, <<"A">> \o TitleSeparator \o <<"B">>}

EntryDescriptions ==
    {<<"d">>}

EntryLinks ==
    {<<"l">>}

EntryDicts ==
    UNION {[K -> EntryTitles \cup EntryDescriptions \cup EntryLinks] :
               K \in SUBSET {"title", "description", "link"}}

Entries ==
    {e \in EntryDicts :
        /\ "title" \in DOMAIN e => e.title \in EntryTitles
        /\ "description" \in DOMAIN e => e.description \in EntryDescriptions
        /\ "link" \in DOMAIN e => e.link \in EntryLinks}

\* feed.feed: the feed-level dictionary, with or without its "updated" stamp.
FeedDicts ==
    {<<>>, [updated |-> <<"t", "1">>]}

\* What feedparser.parse(url) can do: return a parsed feed (malformed or not),
\* or raise.
Responses ==
    {[exc |-> "none", entries |-> es, bozo |-> b, feed |-> f] :
        es \in SeqsUpTo(Entries, MaxEntries), b \in BOOLEAN, f \in FeedDicts}
    \cup
    {[exc |-> x, entries |-> <<>>, bozo |-> FALSE, feed |-> <<>>] : x \in FetchExceptions}

\* Lines 34-35: a feed whose malformed flag is set has its bozo_exception
\* printed; nothing else depends on the flag.
BozoDiagnostic(feed) ==
    IF feed.bozo THEN <<"bozo_exception">> ELSE <<>>

\* A mutation of feed_entries: the entries of a malformed feed are not read.
feed_entries_unless_bozo(feed) ==
    IF feed.bozo THEN <<>> ELSE feed.entries

\* Line 38: feed.entries, the entries the loop goes over.
feed_entries(feed) ==
    feed.entries

\* A mutation of AppendItem: an item equal to one already listed is dropped.
AppendItemIfNew(list, item) ==
    IF \E i \in 1..Len(list) : list[i] = item THEN list ELSE Append(list, item)

\* Line 47: items.append(...)
AppendItem(list, item) ==
    Append(list, item)

\* Lines 39-51: the item built from one entry.
ItemOfEntry(entry) ==
    [title |-> CleanTitle(Get(entry, "title", NoTitle)),
     description |-> Get(entry, "description", <<>>),
     link |-> Get(entry, "link", <<>>)]

ParseInit ==
    /\ response \in Responses
    /\ items = <<>>
    /\ entry_idx = 0
    /\ parse_pc = "fetch"
    /\ parse_ret = [items |-> <<>>, last_updated |-> None]
    /\ diagnostics = <<>>
    /\ TitleIdle
    /\ ExtractIdle
    /\ RenderIdle
    /\ RunIdle
    /\ SanitizeIdle

\* Lines 25-27 and 33-37: feedparser.parse returns a feed; the loop starts on
\* an empty item list.
FetchReturns ==
    /\ parse_pc = "fetch"
    /\ response.exc = "none"
    /\ items' = <<>>
    /\ entry_idx' = 1
    /\ parse_pc' = "loop"
    /\ diagnostics' = diagnostics \o BozoDiagnostic(response)
    /\ UNCHANGED <<response, parse_ret, otherThanParse>>

\* Lines 28-31: feedparser.parse raises an exception the except clause
\* catches; the function returns [], "N/a".
FetchRaisesCaught ==
    /\ parse_pc = "fetch"
    /\ response.exc # "none"
    /\ CaughtByExcept(response.exc)
    /\ parse_ret' = [items |-> <<>>, last_updated |-> NotAvailable]
    /\ parse_pc' = "returned"
    /\ diagnostics' = Append(diagnostics, "RemoteDisconnected")
    /\ UNCHANGED <<response, items, entry_idx, otherThanParse>>

\* Lines 25-28: feedparser.parse raises an exception the except clause does
\* not catch; it leaves parse_rss_feed and reaches the caller.
FetchRaisesUncaught ==
    /\ parse_pc = "fetch"
    /\ response.exc # "none"
    /\ ~CaughtByExcept(response.exc)
    /\ parse_pc' = "raised"
    /\ UNCHANGED <<response, items, entry_idx, parse_ret, diagnostics, otherThanParse>>

\* Lines 38-51: one pass of the loop over feed.entries.
LoopEntry ==
    /\ parse_pc = "loop"
    /\ entry_idx <= Len(feed_entries(response))
    /\ items' = AppendItem(items, ItemOfEntry(feed_entries(response)[entry_idx]))
    /\ entry_idx' = entry_idx + 1
    /\ UNCHANGED <<response, parse_pc, parse_ret, diagnostics, otherThanParse>>

\* Line 52: the loop is over; return items, feed.feed.get("updated", None).
ParseReturn ==
    /\ parse_pc = "loop"
    /\ entry_idx > Len(feed_entries(response))
    /\ parse_ret' = [items |-> items, last_updated |-> Get(response.feed, "updated", None)]
    /\ parse_pc' = "returned"
    /\ UNCHANGED <<response, items, entry_idx, diagnostics, otherThanParse>>

ParseNext ==
    \/ FetchReturns
    \/ FetchRaisesCaught
    \/ FetchRaisesUncaught
    \/ LoopEntry
    \/ ParseReturn

SpecParse ==
    ParseInit /\ [][ParseNext]_vars

(***************************************************************************)
(* extract_secondary_sources_from_description, lines 55-97.                *)
(***************************************************************************)
\* Lines 63-65: five replace() calls, one after the other.
StripDescription(d) ==
    Replace(Replace(Replace(Replace(Replace(d, LiAHref, <<>>),
        OlOpen, <<>>), OlClose, <<>>), StrongOpen, <<>>), StrongClose, <<>>)

\* A mutation of Candidates: the first piece (the primary source) is kept.
CandidatesWithFirst(pieces) ==
    SubSeq(pieces, 1, Len(pieces) - 1)

\* Lines 71 and 73: pieces[1:][:-1], the pieces but the first and the last.
Candidates(pieces) ==
    SubSeq(pieces, 2, Len(pieces) - 1)

\* Line 94: the anchor of a citation.
Anchor(url, title, publisher) ==
    AnchorHref \o url \o AnchorTitle \o title \o AnchorTarget \o publisher \o AnchorClose

\* Lines 80-92, one pass of the loop: url, title and publisher of a candidate
\* segment, or nothing where the source has "continue".
SegmentCitation(source) ==
    LET url_split == Split(source, url_split_pattern)
    IN  IF Len(url_split) # 2
        THEN <<>>
        ELSE LET title_publisher_split == Split(url_split[2], title_publisher_split_pattern)
             IN  IF Len(title_publisher_split) # 2
                 THEN <<>>
                 ELSE <<[url |-> url_split[1],
                         title |-> title_publisher_split[1],
                         publisher |-> title_publisher_split[2]]>>

\* Lines 80-95, one pass of the loop: the anchors (none or one) a candidate
\* segment adds to the list.
SegmentAnchors(source) ==
    LET c == SegmentCitation(source)
    IN  [i \in 1..Len(c) |-> Anchor(c[i].url, c[i].title, c[i].publisher)]

\* A mutation of LoopAnchors: a malformed segment ends the loop (break where
\* the source has continue).
RECURSIVE LoopAnchorsBreak(_)
LoopAnchorsBreak(segments) ==
    IF segments = <<>> \/ SegmentAnchors(Head(segments)) = <<>>
    THEN <<>>
    ELSE SegmentAnchors(Head(segments)) \o LoopAnchorsBreak(Tail(segments))

\* Lines 77-95: the loop over the candidate segments, in order.
RECURSIVE LoopAnchors(_)
LoopAnchors(segments) ==
    IF segments = <<>>
    THEN <<>>
    ELSE SegmentAnchors(Head(segments)) \o LoopAnchors(Tail(segments))

\* A mutation of SegmentsOf: without the marker, the whole text is taken as
\* one candidate segment.
SegmentsOfOrWhole(pieces) ==
    IF Len(pieces) > 1 THEN Candidates(pieces) ELSE pieces

\* Lines 69-75: the candidate segments; none ("return []") when the split
\* gave one piece.
SegmentsOf(pieces) ==
    IF Len(pieces) > 1 THEN Candidates(pieces) ELSE <<>>

\* Lines 63-97.
ExtractSecondarySources(d) ==
    LoopAnchors(SegmentsOf(Split(StripDescription(d), sources_split_pattern)))

\* The list item of a citation, in the markup the extractor is written for:
\* <li><a href="URL" target="_blank">TITLE</a>&nbsp;&nbsp;<font color="#6f6f6f">PUBLISHER</font></li>
ListItem(c) ==
    LiAHref \o c.url \o url_split_pattern \o c.title \o title_publisher_split_pattern
        \o c.publisher \o sources_split_pattern

\* The citations the candidate descriptions are made of. The title of the
\* second holds a double quote, an ampersand, a space and "</a>", the start of
\* the text a title ends at; its publisher ends with "</font>", the start of
\* the marker.
Citation1 ==
    [url |-> <<"u", "1">>, title |-> <<"t", "1">>, publisher |-> <<"p", "1">>]

Citation2 ==
    [url |-> <<"u", "2">>,
     title |-> <<"\"", "&", " ", "<", "/", "a", ">">>,
     publisher |-> <<"p", "<", "/", "f", "o", "n", "t", ">">>]

Citations ==
    {Citation1, Citation2}

\* The parts candidate descriptions are assembled from.
DescriptionParts ==
    {   \* two list items of the expected form
        ListItem(Citation1),
        ListItem(Citation2),
        \* a list item without ' target="_blank"' after its URL
        LiAHref \o <<"u", "3", "\"", ">">> \o <<"t", "3">> \o title_publisher_split_pattern
            \o <<"p", "3">> \o sources_split_pattern,
        \* a list item without the markup between its title and its publisher
        LiAHref \o <<"u", "4">> \o url_split_pattern \o <<"t", "4", " ", "p", "4">>
            \o sources_split_pattern,
        \* a list item of the expected form but for its missing "</font></li>"
        LiAHref \o <<"u", "5">> \o url_split_pattern \o <<"t", "5">>
            \o title_publisher_split_pattern \o <<"p", "5">>,
        \* a list item whose closing "</font></li>" is interrupted by an "<ol>"
        LiAHref \o <<"u", "6">> \o url_split_pattern \o <<"t", "6">>
            \o title_publisher_split_pattern \o <<"p", "6">>
            \o <<"<", "/", "f", "o", "n", "t", ">", "<", "/">> \o OlOpen \o <<"l", "i", ">">>,
        \* plain text, and text in bold
        <<"x">>,
        StrongOpen \o <<"y">> \o StrongClose
    }

\* A description: its parts one after the other, inside <ol>...</ol> or not.
Description(parts, in_ol) ==
    IF in_ol THEN OlOpen \o Concat(parts) \o OlClose ELSE Concat(parts)

DescriptionInputs ==
    {Description(parts, in_ol) :
        parts \in SeqsUpTo(DescriptionParts, MaxDescParts), in_ol \in BOOLEAN}

ExtractInit ==
    /\ description \in DescriptionInputs
    /\ item_secondary_sources_anchors = <<>>
    /\ extract_pc = "start"
    /\ TitleIdle
    /\ ParseIdle
    /\ RenderIdle
    /\ RunIdle
    /\ SanitizeIdle

\* The call of extract_secondary_sources_from_description(description).
ExtractCall ==
    /\ extract_pc = "start"
    /\ item_secondary_sources_anchors' = ExtractSecondarySources(description)
    /\ extract_pc' = "done"
    /\ UNCHANGED <<description, otherThanExtract>>

ExtractNext ==
    ExtractCall

SpecExtract ==
    ExtractInit /\ [][ExtractNext]_vars

(***************************************************************************)
(* generate_google_news_html_section (lines 162-184) and                   *)
(* generate_reuters_html_section (lines 187-208).                          *)
(***************************************************************************)
\* c.lower(), for one character.
LowerChar(c) ==
    IF \E i \in 1..Len(UpperCase) : UpperCase[i] = c
    THEN LowerCase[CHOOSE i \in 1..Len(UpperCase) : UpperCase[i] = c]
    ELSE c

\* Line 172: section_title.lower().replace(' ', '-').replace('.', '')
SectionId(section_title) ==
    Replace(Replace([i \in 1..Len(section_title) |-> LowerChar(section_title[i])],
                    <<" ">>, <<"-">>), <<".">>, <<>>)

\* Lines 173 and 200: {x if x else ''}; None and the empty str are falsy.
StampShown(stamp) ==
    IF stamp = None \/ stamp = <<>> THEN <<>> ELSE stamp

\* Lines 172-174 and 199-201: the heading of a section, its id given.
SectionHead(id, section_title, section_url, stamp) ==
    H2Open \o id \o H2Href \o section_url \o H2HrefClose \o section_title \o H2Close
        \o StampShown(stamp) \o ListOpen

\* ' '.join(parts)
RECURSIVE JoinWithSpace(_)
JoinWithSpace(parts) ==
    IF parts = <<>> THEN <<>>
    ELSE IF Len(parts) = 1 THEN parts[1]
    ELSE parts[1] \o <<" ">> \o JoinWithSpace(Tail(parts))

\* Lines 175, 202: items[:max_news_items], for a limit that is not negative.
FirstItems(list, limit) ==
    SubSeq(list, 1, IF limit < Len(list) THEN limit ELSE Len(list))

\* A mutation of GoogleNewsEntry: the joined anchors are appended whether there
\* are any or not.
GoogleNewsEntryAlwaysJoined(item) ==
    LET anchors == ExtractSecondarySources(Get(item, "description", <<>>))
    IN  LiOpen \o item.link \o LiTitle \o item.title \o LiStrong \o item.title
            \o LiStrongClose \o <<" ">> \o JoinWithSpace(anchors) \o LiClose

\* Lines 176-182: the list entry of one Google News item. A non-empty list of
\* anchors is truthy.
GoogleNewsEntry(item) ==
    LET anchors == ExtractSecondarySources(Get(item, "description", <<>>))
        link == LiOpen \o item.link \o LiTitle \o item.title \o LiStrong \o item.title
                    \o LiStrongClose
    IN  IF anchors # <<>>
        THEN link \o <<" ">> \o JoinWithSpace(anchors) \o LiClose
        ELSE link \o LiClose

\* Lines 172-184.
GoogleNewsSectionHtml(section_title, section_url, list, stamp, limit) ==
    LET shown == FirstItems(list, limit)
    IN  SectionHead(SectionId(section_title), section_title, section_url, stamp)
            \o Concat([i \in 1..Len(shown) |-> GoogleNewsEntry(shown[i])])
            \o ListClose

\* s[:-n], n > 0: s without its last n characters, empty when s has no more
\* than n.
CutEnd(s, n) ==
    IF Len(s) > n THEN SubSeq(s, 1, Len(s) - n) ELSE <<>>

\* Lines 204-205: the title the Reuters section gives an item.
ReutersShownTitle(title) ==
    IF EndsWith(title, ReutersTag) THEN CutEnd(title, ReutersTitleCut) ELSE title

\* Lines 202-205: the item list after the loop. An item is a dictionary the
\* loop writes to, and the slice of line 202 holds the same dictionaries as the
\* list passed, so the caller's items change.
ReutersItemsAfter(list, limit) ==
    [i \in 1..Len(list) |->
        IF i <= limit
        THEN [list[i] EXCEPT !.title = ReutersShownTitle(list[i].title)]
        ELSE list[i]]

\* Line 206: the list entry of one Reuters item, its title already rewritten.
ReutersEntry(item) ==
    LiOpen \o item.link \o LiStrong \o item.title \o LiStrongClose \o LiClose

\* Lines 199-208.
ReutersSectionHtml(section_title, section_url, list, stamp, limit) ==
    LET shown == FirstItems(ReutersItemsAfter(list, limit), limit)
    IN  SectionHead(ReutersId, section_title, section_url, stamp)
            \o Concat([i \in 1..Len(shown) |-> ReutersEntry(shown[i])])
            \o ListClose

\* The values the f-strings of lines 180/182 and 94 put in a title="..."
\* attribute for one Google News item: the item's title, then the title of
\* each citation of its description.
TitleAttributes(item) ==
    LET segs == SegmentsOf(Split(StripDescription(Get(item, "description", <<>>)),
                                 sources_split_pattern))
        cits == Concat([i \in 1..Len(segs) |-> SegmentCitation(segs[i])])
    IN  <<item.title>> \o [i \in 1..Len(cits) |-> cits[i].title]

\* The items parse_rss_feed can return that the section functions are given:
\* titles with and without a tag, with a double quote and an ampersand, and
\* with the tag twice, one character apart (the title of an entry titled
\* "A [Reuters]s - Reuters"); no description, the description of a primary source and
\* two secondary ones, or that of a primary source alone.
ItemTitles ==
    {<<"S", "t", "o", "r", "m">> \o ReutersTag,
     <<"S", "t", "o", "r", "m">>,
     <<"\"", "a", "\"", " ", "&", " ", "b">> \o ReutersTag,
     <<"A">> \o ReutersTag \o <<"s">> \o ReutersTag}

ItemDescriptions ==
    {<<>>,
     Description(<<ListItem(Citation1), ListItem(Citation2), ListItem(Citation1)>>, TRUE),
     Description(<<ListItem(Citation1)>>, TRUE)}

NewsItems ==
    {[title |-> t, description |-> d, link |-> <<"l">>] :
        t \in ItemTitles, d \in ItemDescriptions}

RenderInit ==
    /\ section \in {"google", "reuters"}
    /\ news_items \in SeqsUpTo(NewsItems, MaxNewsItems)
    /\ news_items_passed = news_items
    /\ last_updated \in {None, <<"t", "1">>}
    /\ max_news_items \in 1..MaxNewsItems
    /\ html = <<>>
    /\ html_first = <<>>
    /\ render_calls = 0
    /\ TitleIdle
    /\ ParseIdle
    /\ ExtractIdle
    /\ RunIdle
    /\ SanitizeIdle

\* A call of generate_google_news_html_section on the item list.
GoogleNewsSection ==
    /\ section = "google"
    /\ render_calls < 2
    /\ html' = GoogleNewsSectionHtml(GoogleNewsTitle, GoogleNewsUrl, news_items,
                                     last_updated, max_news_items)
    /\ html_first' = IF render_calls = 0 THEN html' ELSE html_first
    /\ render_calls' = render_calls + 1
    /\ UNCHANGED <<section, news_items, news_items_passed, last_updated, max_news_items,
                   otherThanRender>>

\* A call of generate_reuters_html_section on the item list.
ReutersSection ==
    /\ section = "reuters"
    /\ render_calls < 2
    /\ html' = ReutersSectionHtml(ReutersTitle, ReutersUrl, news_items,
                                  last_updated, max_news_items)
    /\ news_items' = ReutersItemsAfter(news_items, max_news_items)
    /\ html_first' = IF render_calls = 0 THEN html' ELSE html_first
    /\ render_calls' = render_calls + 1
    /\ UNCHANGED <<section, news_items_passed, last_updated, max_news_items, otherThanRender>>

RenderNext ==
    \/ GoogleNewsSection
    \/ ReutersSection

SpecRender ==
    RenderInit /\ [][RenderNext]_vars

(***************************************************************************)
(* generate_news_pages, lines 635-663, and the six page functions it       *)
(* calls (lines 257-622).                                                  *)
(***************************************************************************)
\* The pages in the order of lines 647-663: the file each is written to and
\* the number of parse_rss_feed calls its page function makes before it
\* builds the page (lines 268-274, 311-329, 381-390, 424-442, 496-518,
\* 579-591).
Pages ==
    <<[file |-> "output/index.html", feeds |-> 2],
      [file |-> "output/us.html", feeds |-> 4],
      [file |-> "output/world.html", feeds |-> 2],
      [file |-> "output/business.html", feeds |-> 4],
      [file |-> "output/security.html", feeds |-> 5],
      [file |-> "output/technology.html", feeds |-> 3]>>

RunInit ==
    /\ run_pc = "prepare"
    /\ page_idx = 0
    /\ page_stamps = <<>>
    /\ written = <<>>
    /\ TitleIdle
    /\ ParseIdle
    /\ ExtractIdle
    /\ RenderIdle
    /\ SanitizeIdle

\* Lines 644-647: the output directory is prepared and the first page
\* function is entered.
PrepareOutput ==
    /\ run_pc = "prepare"
    /\ run_pc' = "fetch"
    /\ page_idx' = 1
    /\ UNCHANGED <<page_stamps, written, otherThanRun>>

\* A parse_rss_feed call of the page function returns: with the feed's stamp
\* when feedparser.parse returned (line 52), with "N/a" when it raised an
\* exception the except clause of line 28 catches (line 31).
PageFetchReturns ==
    /\ run_pc = "fetch"
    /\ Len(page_stamps) < Pages[page_idx].feeds
    /\ \E outcome \in {"none"} \cup FetchExceptions :
          /\ outcome = "none" \/ CaughtByExcept(outcome)
          /\ page_stamps' = Append(page_stamps, IF outcome = "none" THEN "updated" ELSE "N/a")
    /\ UNCHANGED <<run_pc, page_idx, written, otherThanRun>>

\* A parse_rss_feed call of the page function raises: feedparser.parse raised
\* an exception line 28 does not catch. Neither the page function nor
\* generate_news_pages has a try statement, so the run ends there.
PageFetchRaises ==
    /\ run_pc = "fetch"
    /\ Len(page_stamps) < Pages[page_idx].feeds
    /\ \E outcome \in FetchExceptions : ~CaughtByExcept(outcome)
    /\ run_pc' = "raised"
    /\ UNCHANGED <<page_idx, page_stamps, written, otherThanRun>>

\* All feeds of the page are in: the page function builds the page from its
\* sections and returns it.
PageBuilt ==
    /\ run_pc = "fetch"
    /\ Len(page_stamps) = Pages[page_idx].feeds
    /\ run_pc' = "write"
    /\ UNCHANGED <<page_idx, page_stamps, written, otherThanRun>>

\* write_content_to_file (lines 648, 651, ...): the page is written, and the
\* next page function is entered, or the run is over.
WritePage ==
    /\ run_pc = "write"
    /\ written' = Append(written, Pages[page_idx].file)
    /\ page_stamps' = <<>>
    /\ IF page_idx < Len(Pages)
       THEN page_idx' = page_idx + 1 /\ run_pc' = "fetch"
       ELSE page_idx' = page_idx /\ run_pc' = "done"
    /\ UNCHANGED otherThanRun

RunNext ==
    \/ PrepareOutput
    \/ PageFetchReturns
    \/ PageFetchRaises
    \/ PageBuilt
    \/ WritePage

SpecRun ==
    RunInit /\ [][RunNext]_vars

(***************************************************************************)
(* The Markup Sanitizer, sanitize(text), of spec 4.3. rss_to_html.py holds *)
(* no such function (it renders feed text as it is); the four steps below  *)
(* are modelled from the spec.                                             *)
(***************************************************************************)
\* Step 1: every double quote becomes a single quote.
ReplaceQuotes(s) ==
    Replace(s, <<"\"">>, <<"'">>)

\* Step 2: every ampersand becomes "&amp;", in one pass over the text.
EscapeAmpersands(s) ==
    Replace(s, <<"&">>, AmpEntity)

\* Step 3: a text that ends with " (.gov)" is cut at the last occurrence of it.
TrimGovSuffix(s) ==
    IF EndsWith(s, GovSuffix) THEN SubSeq(s, 1, RFind(s, GovSuffix) - 1) ELSE s

Whitespace ==
    {" ", "\t"}

\* A line without its leading and trailing whitespace.
RECURSIVE StripLine(_)
StripLine(line) ==
    IF line = <<>> THEN <<>>
    ELSE IF Head(line) \in Whitespace THEN StripLine(Tail(line))
    ELSE IF line[Len(line)] \in Whitespace THEN StripLine(SubSeq(line, 1, Len(line) - 1))
    ELSE line

\* parts joined by single newlines.
RECURSIVE JoinLines(_)
JoinLines(parts) ==
    IF parts = <<>> THEN <<>>
    ELSE IF Len(parts) = 1 THEN parts[1]
    ELSE parts[1] \o <<"\n">> \o JoinLines(Tail(parts))

\* Step 4: the lines are stripped, the empty ones dropped, the rest joined by
\* single newlines.
CollapseLines(s) ==
    LET lines == Split(s, <<"\n">>)
        stripped == [i \in 1..Len(lines) |-> StripLine(lines[i])]
        kept == SelectSeq(stripped, LAMBDA l : l # <<>>)
    IN  JoinLines(kept)

\* A mutation of Sanitize: the lines are collapsed before the suffix is
\* trimmed (steps 3 and 4 in the other order).
SanitizeTrimLast(s) ==
    TrimGovSuffix(CollapseLines(EscapeAmpersands(ReplaceQuotes(s))))

\* sanitize(text): steps 1 to 4, in this order.
Sanitize(s) ==
    CollapseLines(TrimGovSuffix(EscapeAmpersands(ReplaceQuotes(s))))

\* The pieces candidate texts are assembled from.
TextPieces ==
    {<<"a">>, <<"\"">>, <<"&">>, AmpEntity, GovSuffix, <<"\n">>, <<" ">>, ExampleText}

TextInputs ==
    {Concat(p) : p \in SeqsUpTo(TextPieces, MaxTextParts)}

SanitizeInit ==
    /\ text \in TextInputs
    /\ sanitized = <<>>
    /\ sanitize_pc = "start"
    /\ TitleIdle
    /\ ParseIdle
    /\ ExtractIdle
    /\ RenderIdle
    /\ RunIdle

\* The call sanitize(text).
SanitizeCall ==
    /\ sanitize_pc = "start"
    /\ sanitized' = Sanitize(text)
    /\ sanitize_pc' = "done"
    /\ UNCHANGED <<text, otherThanSanitize>>

SanitizeNext ==
    SanitizeCall

SpecSanitize ==
    SanitizeInit /\ [][SanitizeNext]_vars

(***************************************************************************)
(* The program as a whole: each part starts from its own initial states    *)
(* and the other parts stand still.                                        *)
(***************************************************************************)
Init ==
    \/ TitleInit
    \/ ParseInit
    \/ ExtractInit
    \/ RenderInit
    \/ RunInit
    \/ SanitizeInit

Next ==
    \/ TitleNext
    \/ ParseNext
    \/ ExtractNext
    \/ RenderNext
    \/ RunNext
    \/ SanitizeNext

Spec ==
    Init /\ [][Next]_vars

(***************************************************************************)
(* Properties.                                                             *)
(***************************************************************************)
\* C1: once the bold markers are removed, a title that contains " - " is cut
\* once, at the last place where " - " occurs, into headline and tag, and the
\* display title is headline ++ " [" ++ tag ++ "]"; a title that contains no
\* " - " is displayed as it is after the removal of the markers.
C1_DisplayTitle ==
    title_pc = "done" =>
        LET s == StripStrong(entry_title)
            occ == {i \in 1..(Len(s) - 2) : SubSeq(s, i, i + 2) = TitleSeparator}
        IN  IF occ = {}
            THEN entry_title_cleaned = s
            ELSE \E i \in occ :
                    /\ \A j \in occ : j <= i
                    /\ entry_title_cleaned =
                           SubSeq(s, 1, i - 1) \o TagOpen \o SubSeq(s, i + 3, Len(s)) \o TagClose

\* C1's case: "A - B - A" has been cut at its last separator into "A - B [A]".
C1_Witness ==
    /\ title_pc = "done"
    /\ entry_title = <<"A">> \o TitleSeparator \o <<"B">> \o TitleSeparator \o <<"A">>
    /\ entry_title_cleaned = <<"A">> \o TitleSeparator \o <<"B">> \o TagOpen \o <<"A">> \o TagClose

\* C2: whatever exception the fetch of the feed ends with, parse_rss_feed
\* returns (it does not raise), and it returns no item and the stamp "N/a".
C2_FetchFailureReturnsNotAvailable ==
    (response.exc # "none" /\ parse_pc \in {"returned", "raised"}) =>
        /\ parse_pc = "returned"
        /\ parse_ret = [items |-> <<>>, last_updated |-> NotAvailable]

\* C10: a returned item list has one item per entry, the i-th item built from
\* the i-th entry, with the entry's description and link as they are.
C10_OneItemPerEntryInOrder ==
    (parse_pc = "returned" /\ response.exc = "none") =>
        /\ Len(parse_ret.items) = Len(response.entries)
        /\ \A i \in 1..Len(response.entries) :
              LET e == response.entries[i]
                  it == parse_ret.items[i]
              IN  /\ "description" \in DOMAIN e => it.description = e.description
                  /\ "link" \in DOMAIN e => it.link = e.link
                  /\ "title" \in DOMAIN e => it.title = CleanTitle(e.title)

\* C10's case: a feed of two identical entries has been returned as two
\* identical items.
C10_Witness ==
    /\ parse_pc = "returned"
    /\ Len(response.entries) = 2
    /\ response.entries[1] = response.entries[2]
    /\ "link" \in DOMAIN response.entries[1]
    /\ Len(parse_ret.items) = 2
    /\ parse_ret.items[1] = parse_ret.items[2]

\* C4 as the spec states it: a description that does not contain the marker
\* "</font></li>" (the empty description is one) gives no citation.
C4_NoMarkerNoSources ==
    (extract_pc = "done" /\ ~Contains(description, sources_split_pattern)) =>
        item_secondary_sources_anchors = <<>>

\* C4, amended: a description that does not contain the marker "</font></li>"
\* once '<li><a href="', "<ol>", "</ol>", "<strong>" and "</strong>" have been
\* removed from it (the empty description is one) gives no citation.
C4_NoMarkerAfterRemovalNoSources ==
    (extract_pc = "done"
        /\ ~Contains(StripDescription(description), sources_split_pattern)) =>
        item_secondary_sources_anchors = <<>>

\* C4's case: a description that is not empty and holds a list item of the
\* expected form without its closing marker has been extracted from.
C4_Witness ==
    /\ extract_pc = "done"
    /\ Contains(description, url_split_pattern)
    /\ Contains(description, title_publisher_split_pattern)
    /\ ~Contains(StripDescription(description), sources_split_pattern)
    /\ item_secondary_sources_anchors = <<>>

\* C5: from <ol>, the list item of the primary source (of the same form as
\* the others), k >= 1 list items of the expected form (URL, TITLE and
\* PUBLISHER not empty and free of the texts the extractor removes or splits
\* at, the URL free of "<" and of double quotes as a URL is) and </ol>, the
\* extractor returns k anchors, the i-th made of the URL, TITLE and PUBLISHER
\* of the i-th secondary list item.
C5_WellFormedDescription ==
    extract_pc = "done" =>
        \A cs \in SeqsUpTo(Citations, MaxDescParts) :
            (Len(cs) >= 2 /\ description = Description([i \in 1..Len(cs) |-> ListItem(cs[i])], TRUE)) =>
                /\ Len(item_secondary_sources_anchors) = Len(cs) - 1
                /\ \A i \in 1..(Len(cs) - 1) :
                      item_secondary_sources_anchors[i] =
                          Anchor(cs[i + 1].url, cs[i + 1].title, cs[i + 1].publisher)

\* C5's case: the description of a primary source and two different secondary
\* sources has given two anchors.
C5_Witness ==
    /\ extract_pc = "done"
    /\ description = Description(<<ListItem(Citation1), ListItem(Citation2), ListItem(Citation1)>>, TRUE)
    /\ Len(item_secondary_sources_anchors) = 2

\* The candidate segments of a description: the pieces between the markers of
\* its stripped text, but the first and the last.
CandidateSegments(d) ==
    LET pieces == Split(StripDescription(d), sources_split_pattern)
    IN  [i \in 1..(Len(pieces) - 2) |-> pieces[i + 1]]

\* A segment splits into exactly two parts at '" target="_blank">' and its
\* remainder into exactly two parts at '</a>&nbsp;&nbsp;<font color="#6f6f6f">':
\* each text occurs once (neither can overlap itself).
WellFormedSegment(seg) ==
    /\ Cardinality(Occurrences(seg, url_split_pattern)) = 1
    /\ LET i == CHOOSE j \in Occurrences(seg, url_split_pattern) : TRUE
           rest == SubSeq(seg, i + Len(url_split_pattern), Len(seg))
       IN  Cardinality(Occurrences(rest, title_publisher_split_pattern)) = 1

\* The anchor of a well-formed segment: URL, TITLE and PUBLISHER are what lies
\* before, between and after the two texts.
AnchorOfSegment(seg) ==
    LET i == CHOOSE j \in Occurrences(seg, url_split_pattern) : TRUE
        rest == SubSeq(seg, i + Len(url_split_pattern), Len(seg))
        k == CHOOSE j \in Occurrences(rest, title_publisher_split_pattern) : TRUE
    IN  Anchor(SubSeq(seg, 1, i - 1), SubSeq(rest, 1, k - 1),
               SubSeq(rest, k + Len(title_publisher_split_pattern), Len(rest)))

\* C6: the anchors returned are those of the well-formed candidate segments,
\* in the order of the segments; a malformed segment is left out and nothing
\* else is; with one malformed segment there is one anchor fewer than segments.
C6_MalformedSegmentSkipped ==
    extract_pc = "done" =>
        LET segs == CandidateSegments(description)
            good == SelectSeq(segs, WellFormedSegment)
        IN  /\ Len(item_secondary_sources_anchors) = Len(good)
            /\ \A i \in 1..Len(good) :
                  item_secondary_sources_anchors[i] = AnchorOfSegment(good[i])
            /\ Cardinality({i \in 1..Len(segs) : ~WellFormedSegment(segs[i])}) = 1 =>
                  Len(item_secondary_sources_anchors) = Len(segs) - 1

\* C6's case: of two candidate segments the first is malformed, and the second
\* has given its anchor.
C6_Witness ==
    /\ extract_pc = "done"
    /\ LET segs == CandidateSegments(description)
       IN  /\ Len(segs) = 2
           /\ ~WellFormedSegment(segs[1])
           /\ WellFormedSegment(segs[2])
    /\ Len(item_secondary_sources_anchors) = 1

\* A text holds an ampersand that does not start "&amp;".
UnescapedAmpersand(s) ==
    \E i \in 1..Len(s) : s[i] = "&" /\ ~MatchAt(s, <<"&", "a", "m", "p", ";">>, i)

\* C7: in a Google News section, every value put in a title="..." attribute
\* (the title of each item shown, and the title of each of its citations)
\* holds no double quote and no unescaped ampersand.
C7_TitleAttributesSanitized ==
    (section = "google" /\ render_calls > 0) =>
        \A i \in 1..Len(FirstItems(news_items, max_news_items)) :
            LET values == TitleAttributes(news_items[i])
            IN  \A k \in 1..Len(values) :
                    /\ ~Contains(values[k], <<"\"">>)
                    /\ ~UnescapedAmpersand(values[k])

\* The title the spec has the Reuters section show: the title without its
\* trailing " [Reuters]", or the title as it is.
WithoutReutersTag(title) ==
    IF EndsWith(title, ReutersTag)
    THEN SubSeq(title, 1, Len(title) - Len(ReutersTag))
    ELSE title

\* C9: the Reuters section shows each of the first max_news_items items with
\* its title less the trailing " [Reuters]" and nothing else, and a title that
\* does not end with the tag as it is.
C9_ReutersTagRemoved ==
    (section = "reuters" /\ render_calls = 1) =>
        LET shown == FirstItems(news_items_passed, max_news_items)
        IN  html = SectionHead(ReutersId, ReutersTitle, ReutersUrl, last_updated)
                    \o Concat([i \in 1..Len(shown) |->
                            LiOpen \o shown[i].link \o LiStrong
                                \o WithoutReutersTag(shown[i].title)
                                \o LiStrongClose \o LiClose])
                    \o ListClose

\* C3: a run of generate_news_pages has, when it ends, written all six pages
\* in the order index, us, world, business, security, technology, whichever
\* feed fetches failed.
C3_AllPagesWritten ==
    run_pc \in {"done", "raised"} =>
        written = [i \in 1..Len(Pages) |-> Pages[i].file]

\* The number of times character c occurs in s.
CountChar(s, c) ==
    Cardinality({i \in 1..Len(s) : s[i] = c})

\* A text sanitize is to leave alone: one line, no double quote, no ampersand,
\* no whitespace at either end, no trailing " (.gov)".
CleanSingleLine(s) ==
    /\ \A i \in 1..Len(s) : s[i] \notin {"\"", "&", "\n"}
    /\ s # <<>> => (s[1] \notin Whitespace /\ s[Len(s)] \notin Whitespace)
    /\ ~EndsWith(s, GovSuffix)

\* C8: the result of sanitize(text) is that of the four steps in their order.
\* It holds no double quote; each ampersand of the text, escaped or not, has
\* become one "&amp;" ("&amp;" gives "&amp;amp;"); a text ending with
\* " (.gov)" loses it, while a text that ends with it only once its trailing
\* whitespace is stripped keeps it (the suffix is matched before the lines are
\* stripped); no line of the result is empty or starts or ends with
\* whitespace; 'He said "hi" & left (.gov)' gives "He said 'hi' &amp; left";
\* and a clean single-line text is returned as it is.
C8_Sanitize ==
    sanitize_pc = "done" =>
        /\ ~Contains(sanitized, <<"\"">>)
        /\ \A i \in 1..Len(sanitized) : sanitized[i] = "&" => MatchAt(sanitized, AmpEntity, i)
        /\ CountChar(sanitized, "&") = CountChar(text, "&")
        /\ text = AmpEntity => sanitized = <<"&">> \o <<"a", "m", "p", ";">> \o <<"a", "m", "p", ";">>
        /\ text = <<"a">> \o GovSuffix => sanitized = <<"a">>
        /\ text = <<"a">> \o GovSuffix \o <<" ">> => sanitized = <<"a">> \o GovSuffix
        /\ LET lines == Split(sanitized, <<"\n">>)
           IN  sanitized # <<>> =>
                 \A i \in 1..Len(lines) :
                    /\ lines[i] # <<>>
                    /\ lines[i][1] \notin Whitespace
                    /\ lines[i][Len(lines[i])] \notin Whitespace
        /\ text = ExampleText \o GovSuffix => sanitized = ExampleSanitized
        /\ CleanSingleLine(text) => sanitized = text

\* C8's case: the example of the spec has been sanitized.
C8_Witness ==
    /\ sanitize_pc = "done"
    /\ text = ExampleText \o GovSuffix
    /\ sanitized = ExampleSanitized

\* C11: every returned item has its three fields title, description and link
\* defined; a missing title becomes "No title", a missing description the
\* empty description, a missing link the empty link, and a non-empty link of
\* the entry stays as it is, non-empty.
C11_MissingFieldsDefaulted ==
    (parse_pc = "returned" /\ response.exc = "none") =>
        /\ Len(parse_ret.items) = Len(response.entries)
        /\ \A i \in 1..Len(parse_ret.items) :
              LET e == response.entries[i]
                  it == parse_ret.items[i]
              IN  /\ DOMAIN it = {"title", "description", "link"}
                  /\ it.title # None /\ it.description # None /\ it.link # None
                  /\ "title" \notin DOMAIN e => it.title = NoTitle
                  /\ "description" \notin DOMAIN e => it.description = <<>>
                  /\ "link" \notin DOMAIN e => it.link = <<>>
                  /\ ("link" \in DOMAIN e /\ e.link # <<>>) =>
                        (it.link = e.link /\ it.link # <<>>)

\* C11's case: a feed has been returned that holds an entry with no key at
\* all, turned into an item, next to an entry with a non-empty link.
C11_Witness ==
    /\ parse_pc = "returned"
    /\ response.exc = "none"
    /\ Len(response.entries) = 2
    /\ DOMAIN response.entries[1] = {}
    /\ "link" \in DOMAIN response.entries[2]
    /\ response.entries[2].link # <<>>
    /\ parse_ret.items[1] = [title |-> NoTitle, description |-> <<>>, link |-> <<>>]
    /\ parse_ret.items[2].link = response.entries[2].link

\* C12: the malformed flag of a feed does not change the result: the returned
\* items and last-updated value are determined by the feed's entries and its
\* updated stamp alone, the same whether the flag is set or not; the flag only
\* adds the diagnostic of line 35.
C12_BozoDoesNotChangeResult ==
    (parse_pc = "returned" /\ response.exc = "none") =>
        /\ parse_ret.items =
              [i \in 1..Len(response.entries) |-> ItemOfEntry(response.entries[i])]
        /\ parse_ret.last_updated = Get(response.feed, "updated", None)
        /\ diagnostics = (IF response.bozo THEN <<"bozo_exception">> ELSE <<>>)

\* C12's case: a malformed feed of two entries with an updated stamp has been
\* returned as two items, and its diagnostic printed.
C12_Witness ==
    /\ parse_pc = "returned"
    /\ response.exc = "none"
    /\ response.bozo
    /\ Len(response.entries) = 2
    /\ "updated" \in DOMAIN response.feed
    /\ Len(parse_ret.items) = 2
    /\ parse_ret.last_updated # None
    /\ diagnostics = <<"bozo_exception">>

\* The citations of a description as the extraction returns them: the anchor
\* <a href="{url}" title="{title}" target="_blank">[{publisher}]</a> of each
\* well-formed candidate segment, in order.
CitationAnchors(d) ==
    LET good == SelectSeq(CandidateSegments(d), WellFormedSegment)
    IN  [i \in 1..Len(good) |-> AnchorOfSegment(good[i])]

\* The list entry C13 describes for an item with the citation anchors given:
\* the headline link, then each anchor after one space, nothing for none.
EntryWithCitations(item, anchors) ==
    LiOpen \o item.link \o LiTitle \o item.title \o LiStrong \o item.title \o LiStrongClose
        \o Concat([i \in 1..Len(anchors) |-> <<" ">> \o anchors[i]])
        \o LiClose

\* C13: in a Google News section the list entry of every rendered item is its
\* headline link, followed, when the extraction of its description returns
\* citations, by one space and the citations' anchors in extraction order,
\* joined by single spaces, and by nothing when it returns none.
C13_GoogleNewsEntryCitations ==
    (section = "google" /\ render_calls > 0) =>
        LET n == IF max_news_items < Len(news_items) THEN max_news_items ELSE Len(news_items)
            returned == [d \in {news_items[i].description : i \in 1..n} |->
                            ExtractSecondarySources(d)]
        IN  /\ \A d \in DOMAIN returned : returned[d] = CitationAnchors(d)
            /\ html = SectionHead(SectionId(GoogleNewsTitle), GoogleNewsTitle, GoogleNewsUrl,
                                  last_updated)
                        \o Concat([i \in 1..n |->
                              EntryWithCitations(news_items[i],
                                                 returned[news_items[i].description])])
                        \o ListClose

\* C13's case: a Google News section has been rendered with two items, one
\* whose description gives two citations and one whose description, though
\* not empty, gives none.
C13_Witness ==
    /\ section = "google"
    /\ render_calls > 0
    /\ max_news_items = 2
    /\ Len(news_items) = 2
    /\ Len(ExtractSecondarySources(news_items[1].description)) = 2
    /\ news_items[2].description # <<>>
    /\ ExtractSecondarySources(news_items[2].description) = <<>>
    /\ html # <<>>

\* The leading primary-source item of a description: a list item of the fixed
\* form, carrying the marker "</font></li>" or lacking it.
PrimaryWithMarker ==
    {ListItem(c) : c \in Citations}

PrimaryWithoutMarker ==
    {LiAHref \o <<"u", "5">> \o url_split_pattern \o <<"t", "5">>
        \o title_publisher_split_pattern \o <<"p", "5">>}

\* The citations that follow the primary source: one at least, and as many as
\* a description of MaxDescParts parts has room for.
CitationLists ==
    SeqsUpTo(Citations, MaxDescParts - 1) \ {<<>>}

\* What C14 says of a description made of a primary-source item and the list
\* items of the citations cits, once extraction has returned: the first piece
\* of the split is the primary source alone (without "<li><a href=", which
\* line 63 removed, and without the marker), the last piece is empty, and the
\* result holds the anchor of every citation, in order.
DroppedPiecesHoldNoCitation(primary, cits) ==
    LET pieces == Split(StripDescription(description), sources_split_pattern)
        shown == StripDescription(primary)
    IN  /\ Len(pieces) > 1
        /\ pieces[1] = (IF EndsWith(shown, sources_split_pattern)
                        THEN SubSeq(shown, 1, Len(shown) - Len(sources_split_pattern))
                        ELSE shown)
        /\ pieces[Len(pieces)] = <<>>
        /\ item_secondary_sources_anchors =
              [i \in 1..Len(cits) |-> Anchor(cits[i].url, cits[i].title, cits[i].publisher)]

\* C14: for a description made of a leading primary-source item, with or
\* without its trailing marker, and citation list items of the fixed form, the
\* first piece dropped is the primary source only and the last piece dropped
\* is empty, so that every citation list item appears in the result.
C14_DroppedPiecesHoldNoCitation ==
    extract_pc = "done" =>
        \A in_ol \in BOOLEAN, primary \in PrimaryWithMarker \cup PrimaryWithoutMarker,
           cits \in CitationLists :
            description = Description(<<primary>> \o [i \in 1..Len(cits) |-> ListItem(cits[i])],
                                      in_ol)
                => DroppedPiecesHoldNoCitation(primary, cits)

\* C14 for the primary-source items that carry the marker only.
C14_WithMarkerOnly ==
    extract_pc = "done" =>
        \A in_ol \in BOOLEAN, primary \in PrimaryWithMarker, cits \in CitationLists :
            description = Description(<<primary>> \o [i \in 1..Len(cits) |-> ListItem(cits[i])],
                                      in_ol)
                => DroppedPiecesHoldNoCitation(primary, cits)

\* The first call of generate_reuters_html_section changed nothing but the
\* titles of the first max_news_items items.
OnlyShownTitlesTouched ==
    /\ Len(news_items) = Len(news_items_passed)
    /\ \A i \in 1..Len(news_items) :
          /\ news_items[i].link = news_items_passed[i].link
          /\ news_items[i].description = news_items_passed[i].description
          /\ i > max_news_items => news_items[i] = news_items_passed[i]

\* C15: two calls in a row of generate_reuters_html_section on the same item
\* list, with the same arguments, return the same HTML; the calls change the
\* title of the first max_news_items items only, never a link, a description
\* or an item past the limit.
C15_ReutersRenderingRepeatable ==
    /\ (section = "reuters" /\ render_calls > 0) => OnlyShownTitlesTouched
    /\ (section = "reuters" /\ render_calls = 2) => html = html_first

====
